---- MODULE Spec2Model ----
(***************************************************************************)
(* A model of lib/iris/common/metadata.py: the metadata schema records     *)
(* (BaseMetadata and its subclasses), the token validator, the name        *)
(* resolver, the ordering rule and the MetadataManagerFactory.             *)
(*                                                                         *)
(* Python values are tagged tuples: <<"none">>, <<"str", chars>> and       *)
(* <<"map", f>>.  A string is the sequence of its characters.              *)
(***************************************************************************)
EXTENDS Integers, Sequences, FiniteSets, TLC

VARIABLES subject, other, ghost, op, res

vars == <<subject, other, ghost, op, res>>

(***************************************************************************)
(* Python values                                                           *)
(***************************************************************************)
Null == <<"none">>

Str(chars) == <<"str", chars>>

Map(f) == <<"map", f>>

Bool(b) == <<"bool", b>>

IsStr(v) == v[1] = "str"

IsBool(v) == v[1] = "bool"

\* isinstance(v, Mapping)
IsMapping(v) == v[1] = "map"

EmptyMap == Map(<<>>)

\* bool(v) for None and str operands
Truthy(v) == v # Null /\ v # Str(<<>>)

\* Python's "a or b"
PyOr(a, b) == IF Truthy(a) THEN a ELSE b

\* str(v) for a str or None operand
PyStr(v) == IF v = Null THEN Str(<<"N", "o", "n", "e">>) ELSE v

\* mapping.get(key, dflt)
MapGet(m, key, dflt) == IF key \in DOMAIN m[2] THEN m[2][key] ELSE dflt

(***************************************************************************)
(* Characters.  "e-acute" stands for U+00E9, a non-ASCII letter.           *)
(***************************************************************************)
AsciiLetters ==
    {"a", "b", "c", "d", "e", "f", "g", "h", "i", "j", "k", "l", "m",
     "n", "o", "p", "q", "r", "s", "t", "u", "v", "w", "x", "y", "z",
     "A", "B", "C", "D", "E", "F", "G", "H", "I", "J", "K", "L", "M",
     "N", "O", "P", "Q", "R", "S", "T", "U", "V", "W", "X", "Y", "Z"}

AsciiDigits == {"0", "1", "2", "3", "4", "5", "6", "7", "8", "9"}

UnicodeLetters == {"e-acute"}

\* [a-zA-Z0-9]
HeadClass == AsciiLetters \cup AsciiDigits

\* \w of a str pattern: Unicode alphanumerics and the underscore
WordClass == AsciiLetters \cup AsciiDigits \cup UnicodeLetters \cup {"_"}

\* [\w\.\+\-@]
TailClass == WordClass \cup {".", "+", "-", "@"}

\* "$" matches at the end of the string and just before a newline that
\* ends the string.
AtDollar(s, i) == i = Len(s) + 1 \/ (i = Len(s) /\ s[i] = "\n")

\* _TOKEN_PARSE.match(s) is not None: ^[a-zA-Z0-9][\w\.\+\-@]*$
TokenParseMatch(s) ==
    /\ Len(s) >= 1
    /\ s[1] \in HeadClass
    /\ \E end \in 2..(Len(s) + 1) :
          /\ \A i \in 2..(end - 1) : s[i] \in TailClass
          /\ AtDollar(s, end)

\* BaseMetadata.token
token(name) ==
    IF name # Null
    THEN (IF TokenParseMatch(name[2]) THEN name ELSE Null)
    ELSE name

(***************************************************************************)
(* The schema hierarchy                                                    *)
(***************************************************************************)
SchemaTypes ==
    {"BaseMetadata", "AncillaryVariableMetadata", "CellMeasureMetadata",
     "CoordMetadata", "CubeMetadata"}

\* issubclass(cls, BaseMetadata)
IsSchemaType(cls) == cls \in SchemaTypes

\* the bases of each class statement
Bases(cls) == IF cls = "BaseMetadata" THEN <<>> ELSE <<"BaseMetadata">>

\* the _members each class statement declares (a lone string is one name)
Members(cls) ==
    CASE cls = "BaseMetadata" ->
            <<"standard_name", "long_name", "var_name", "units", "attributes">>
      [] cls = "AncillaryVariableMetadata" -> <<>>
      [] cls = "CellMeasureMetadata" -> <<"measure">>
      [] cls = "CoordMetadata" -> <<"coord_system", "climatological">>
      [] cls = "CubeMetadata" -> <<"cell_methods">>

\* _NamedTupleMeta.__new__: the _members of the bases, then the class's own
\* (none when the class statement has no _members).
Fields(cls) ==
    LET base_names == IF Len(Bases(cls)) = 0 THEN <<>> ELSE Members(Bases(cls)[1])
    IN  base_names \o Members(cls)

FieldSet(cls) == {Fields(cls)[i] : i \in 1..Len(Fields(cls))}

FieldIndex(cls, field) == CHOOSE i \in 1..Len(Fields(cls)) : Fields(cls)[i] = field

\* isinstance(obj, cls) for an instance of class c
IsInstance(c, cls) == c = cls \/ cls = "BaseMetadata"

(***************************************************************************)
(* Objects: an immutable schema record holds a tuple of values, a Manager  *)
(* holds one attribute per field.                                          *)
(***************************************************************************)
Record(cls, t) == [kind |-> "record", cls |-> cls, v |-> t]

Manager(cls, d) == [kind |-> "manager", cls |-> cls, v |-> d]

NoObject == [kind |-> "none", cls |-> "none", v |-> <<>>]

\* getattr(self, field)
GetAttr(self, field) ==
    IF self.kind = "manager" THEN self.v[field]
    ELSE self.v[FieldIndex(self.cls, field)]

\* outcomes of a call
Return(value) == <<"return", value>>

\* an exception: its type and the items its message lists
Raise(type, items) == <<"raise", type, items>>

NotImplemented == <<"NotImplemented">>

NoResult == <<"nothing">>

Outcome(self, out) == [self |-> self, out |-> out]

DEFAULT_NAME == Str(<<"u", "n", "k", "n", "o", "w", "n">>)

\* BaseMetadata.name trying long_name before standard_name
BaseNameLongFirst(self, default, tok) ==
    LET check(item) == IF tok THEN token(item) ELSE item
        dflt == IF default = Null THEN DEFAULT_NAME ELSE default
        result == PyOr(PyOr(PyOr(check(GetAttr(self, "long_name")),
                                 check(GetAttr(self, "standard_name"))),
                            check(GetAttr(self, "var_name"))),
                       check(dflt))
    IN  IF tok /\ result = Null
        THEN Outcome(self, Raise("ValueError", {"no valid name token"}))
        ELSE Outcome(self, Return(result))

\* BaseMetadata.name
BaseName(self, default, tok) ==
    LET check(item) == IF tok THEN token(item) ELSE item
        dflt == IF default = Null THEN DEFAULT_NAME ELSE default
        result == PyOr(PyOr(PyOr(check(GetAttr(self, "standard_name")),
                                 check(GetAttr(self, "long_name"))),
                            check(GetAttr(self, "var_name"))),
                       check(dflt))
    IN  IF tok /\ result = Null
        THEN Outcome(self, Raise("ValueError", {"no valid name token"}))
        ELSE Outcome(self, Return(result))

\* the enforcement refusing the assignment on a Manager as well
EnforceMappingAlwaysRaises(self) ==
    IF IsMapping(GetAttr(self, "attributes")) THEN Outcome(self, NoResult)
    ELSE Outcome(self, Raise("AttributeError", {"must be a mapping"}))

\* "self.attributes = dict()" inside try/except AttributeError: a Manager
\* takes the assignment, a namedtuple record refuses it.
EnforceMapping(self) ==
    IF IsMapping(GetAttr(self, "attributes")) THEN Outcome(self, NoResult)
    ELSE IF self.kind = "manager"
         THEN Outcome([self EXCEPT !.v["attributes"] = EmptyMap], NoResult)
         ELSE Outcome(self, Raise("AttributeError", {"must be a mapping"}))

\* CubeMetadata.name not validating the default
CubeNameDefaultUnchecked(self, default, tok) ==
    LET check(item) == IF tok THEN token(item) ELSE item
        dflt == IF default = Null THEN DEFAULT_NAME ELSE default
        enforced == EnforceMapping(self)
        me == enforced.self
        result == PyOr(PyOr(PyOr(PyOr(check(GetAttr(me, "standard_name")),
                                      check(GetAttr(me, "long_name"))),
                                 check(GetAttr(me, "var_name"))),
                            check(PyStr(MapGet(GetAttr(me, "attributes"),
                                               "STASH", Str(<<>>))))),
                       dflt)
    IN  IF enforced.out # NoResult THEN enforced
        ELSE IF tok /\ result = Null
             THEN Outcome(me, Raise("ValueError", {"no valid name token"}))
             ELSE Outcome(me, Return(result))

\* CubeMetadata.name
CubeName(self, default, tok) ==
    LET check(item) == IF tok THEN token(item) ELSE item
        dflt == IF default = Null THEN DEFAULT_NAME ELSE default
        enforced == EnforceMapping(self)
        me == enforced.self
        result == PyOr(PyOr(PyOr(PyOr(check(GetAttr(me, "standard_name")),
                                      check(GetAttr(me, "long_name"))),
                                 check(GetAttr(me, "var_name"))),
                            check(PyStr(MapGet(GetAttr(me, "attributes"),
                                               "STASH", Str(<<>>))))),
                       check(dflt))
    IN  IF enforced.out # NoResult THEN enforced
        ELSE IF tok /\ result = Null
             THEN Outcome(me, Raise("ValueError", {"no valid name token"}))
             ELSE Outcome(me, Return(result))

\* CubeMetadata._names
CubeNames(self) ==
    LET enforced == EnforceMapping(self)
        me == enforced.self
        stash == MapGet(GetAttr(me, "attributes"), "STASH", Null)
        stash_name == IF stash # Null THEN PyStr(stash) ELSE stash
    IN  IF enforced.out # NoResult THEN enforced
        ELSE Outcome(me, Return(<<GetAttr(self, "standard_name"),
                                  GetAttr(self, "long_name"),
                                  GetAttr(self, "var_name"), stash_name>>))

\* obj.name(default, token): CubeMetadata overrides name, the other classes
\* inherit BaseMetadata.name; a Manager gets cls.name in its namespace.
Name(self, default, tok) ==
    IF self.cls = "CubeMetadata" THEN CubeName(self, default, tok)
    ELSE BaseName(self, default, tok)

\* obj._names: defined by CubeMetadata alone, and put into the namespace of
\* a Manager only when cls is CubeMetadata.
Names(self) ==
    IF self.cls = "CubeMetadata" THEN CubeNames(self)
    ELSE Outcome(self, Raise("AttributeError", {"no attribute _names"}))

(***************************************************************************)
(* The ordering rule                                                       *)
(***************************************************************************)
\* code points of the characters that ordered values are made of
Ord(c) == CASE c = "a" -> 97 [] c = "b" -> 98 [] c = "k" -> 107 [] c = "s" -> 115

\* x < y for two str values: by code point, a proper prefix first
RECURSIVE StrLt(_, _)
StrLt(x, y) ==
    IF Len(y) = 0 THEN FALSE
    ELSE IF Len(x) = 0 THEN TRUE
    ELSE IF x[1] # y[1] THEN Ord(x[1]) < Ord(y[1])
    ELSE StrLt(Tail(x), Tail(y))

\* x < y for two elements of a sort key: bool with bool, str with str; any
\* other pairing is a TypeError
ElemLt(x, y) ==
    IF IsBool(x) /\ IsBool(y) THEN Return(~x[2] /\ y[2])
    ELSE IF IsStr(x) /\ IsStr(y) THEN Return(StrLt(x[2], y[2]))
    ELSE Raise("TypeError", {"'<' not supported"})

\* tuple.__lt__: the first position at which the elements differ decides;
\* without one the shorter tuple is the smaller
RECURSIVE TupleLt(_, _)
TupleLt(x, y) ==
    IF Len(x) = 0 \/ Len(y) = 0 THEN Return(Len(x) < Len(y))
    ELSE IF x[1] = y[1] THEN TupleLt(Tail(x), Tail(y))
    ELSE ElemLt(x[1], y[1])

\* _sort_key(item)
RECURSIVE SortKeyFrom(_, _)
SortKeyFrom(item, i) ==
    IF i > Len(Fields(item.cls)) THEN <<>>
    ELSE LET value == GetAttr(item, Fields(item.cls)[i])
         IN  <<Bool(value # Null), value>> \o SortKeyFrom(item, i + 1)

\* _sort_key with the flag "value is None" in place of "value is not None"
SortKeyNullLast(item) ==
    [i \in 1..(2 * Len(Fields(item.cls))) |->
        LET value == GetAttr(item, Fields(item.cls)[(i + 1) \div 2])
        IN  IF i % 2 = 1 THEN Bool(value = Null) ELSE value]

SortKey(item) == SortKeyFrom(item, 1)

\* BaseMetadata.__lt__
Lt(self, that) ==
    IF ~(that.kind = "record" /\ IsInstance(that.cls, self.cls))
    THEN NotImplemented
    ELSE TupleLt(SortKey(self), SortKey(that))

(***************************************************************************)
(* MetadataManagerFactory                                                  *)
(***************************************************************************)
\* setattr(self, field, value) on a Manager
SetAttr(self, field, value) ==
    [self EXCEPT !.v = [k \in (DOMAIN self.v) \cup {field} |->
                            IF k = field THEN value ELSE self.v[k]]]

\* "for field, value in state.items(): setattr(self, field, value)"
RECURSIVE SetAll(_, _, _)
SetAll(self, state, keys) ==
    IF keys = {} THEN self
    ELSE LET k == CHOOSE x \in keys : TRUE
         IN  SetAll(SetAttr(self, k, state[k]), state, keys \ {k})

\* MetadataManager.__init__ without the loop over kwargs
ManagerInitNoKwargs(cls, kwargs) == Manager(cls, [f \in FieldSet(cls) |-> Null])

\* MetadataManager.__init__
ManagerInit(cls, kwargs) ==
    LET blank == Manager(cls, [f \in FieldSet(cls) |-> Null])
    IN  SetAll(blank, kwargs, DOMAIN kwargs)

\* the factory without the check of the kwargs
FactoryUncheckedKwargs(cls, kwargs) ==
    IF ~IsSchemaType(cls) THEN Raise("TypeError", {})
    ELSE Return(SetAll(Manager(cls, [f \in FieldSet(cls) |-> Null]), kwargs, DOMAIN kwargs))

\* MetadataManagerFactory(cls, **kwargs): the Manager, or the exception
MetadataManagerFactory(cls, kwargs) ==
    LET extra == {field \in DOMAIN kwargs : field \notin FieldSet(cls)}
    IN  IF ~IsSchemaType(cls) THEN Raise("TypeError", {})
        ELSE IF DOMAIN kwargs # {} /\ extra # {} THEN Raise("ValueError", extra)
        ELSE Return(ManagerInit(cls, kwargs))

\* MetadataManager.fields
ManagerFields(self) == Fields(self.cls)

\* MetadataManager.values
Values(self) ==
    Record(self.cls, [i \in 1..Len(ManagerFields(self)) |->
                          GetAttr(self, ManagerFields(self)[i])])

\* hasattr(obj, "cls")
HasCls(obj) == obj.kind = "manager"

\* __eq__ comparing the snapshots as plain tuples, without "cls is cls"
ManagerEqValuesOnly(self, that) ==
    IF ~HasCls(that) THEN NotImplemented
    ELSE Return(Values(self).v = Values(that).v)

\* MetadataManager.__eq__
ManagerEq(self, that) ==
    IF ~HasCls(that) THEN NotImplemented
    ELSE IF self.cls = that.cls
         THEN Return(Values(self) = Values(that))
         ELSE Return(FALSE)

\* MetadataManager.__ne__
ManagerNe(self, that) ==
    LET match == ManagerEq(self, that)
    IN  IF match # NotImplemented THEN Return(~match[2]) ELSE match

\* __getstate__ exporting the fields of BaseMetadata alone
GetStateBaseOnly(self) ==
    Outcome(self, Return([field \in FieldSet("BaseMetadata") |-> GetAttr(self, field)]))

\* MetadataManager.__getstate__
GetState(self) ==
    Outcome(self, Return([field \in FieldSet(self.cls) |-> GetAttr(self, field)]))

\* MetadataManager.__reduce__: (callable, args, state)
Reduce(self) ==
    LET state == GetState(self)
    IN  Outcome(state.self, Return(<<"MetadataManagerFactory", self.cls, state.out[2]>>))

\* MetadataManager.__setstate__
SetState(self, state) == SetAll(self, state, DOMAIN state)

\* what loading a pickle does with the result of __reduce__: call the
\* callable on the args, then __setstate__ on what it returns
Reconstruct(reduced) ==
    SetState(MetadataManagerFactory(reduced[2], <<>>)[2], reduced[3])

(***************************************************************************)
(* The state: the object under operation, the second object of a call     *)
(* (an operand, a snapshot, a reconstruction), the last call and its       *)
(* outcome.  ghost records the initial values a Manager was created with   *)
(* and the value last assigned to each attribute since.                    *)
(***************************************************************************)
MaxLen == 2

MaxKwargs == 2

MaxAssign == 2

MaxNonNull == 2

NoGhost == [cls |-> "none", init |-> <<>>, last |-> <<>>]

Call(name, args, before, after) ==
    [name |-> name, args |-> args, before |-> before, after |-> after]

NoCall == Call("init", <<>>, NoObject, NoObject)

\* d with key k set to v
Put(d, k, v) == [x \in (DOMAIN d) \cup {k} |-> IF x = k THEN v ELSE d[x]]

\* the dicts that give at most n of the keys a value, key k one of vals[k]
RECURSIVE Dicts(_, _, _)
Dicts(keys, vals, n) ==
    IF keys = {} \/ n = 0 THEN {<<>>}
    ELSE LET k == CHOOSE x \in keys : TRUE
         IN  Dicts(keys \ {k}, vals, n)
             \cup {Put(d, k, v) : d \in Dicts(keys \ {k}, vals, n - 1), v \in vals[k]}

\* the Managers of class cls with at most n fields not None, field f then
\* holding one of vals[f]
ManagersOf(cls, vals, n) ==
    {Manager(cls, [f \in FieldSet(cls) |-> IF f \in DOMAIN d THEN d[f] ELSE Null]) :
        d \in Dicts(FieldSet(cls), vals, n)}

AllFields ==
    {"standard_name", "long_name", "var_name", "units", "attributes",
     "measure", "coord_system", "climatological", "cell_methods"}

(***************************************************************************)
(* Specification SpecToken: token() on strings of at most MaxLen           *)
(* characters and on None.                                                 *)
(***************************************************************************)
TokenChars == {"a", "Z", "7", "_", ".", "+", "-", "@", " ", "/", "\n", "e-acute"}

Strings(chars, n) == UNION {[1..k -> chars] : k \in 0..n}

TokenInputs == {Null} \cup {Str(s) : s \in Strings(TokenChars, MaxLen)}

InitIdle ==
    /\ subject = NoObject
    /\ other = NoObject
    /\ ghost = NoGhost
    /\ op = NoCall
    /\ res = NoResult

TokenCall ==
    \E name \in TokenInputs :
        /\ op.name = "init"
        /\ op' = Call("token", <<name>>, NoObject, NoObject)
        /\ res' = Return(token(name))
        /\ UNCHANGED <<subject, other, ghost>>

NextToken == TokenCall

SpecToken == InitIdle /\ [][NextToken]_vars

(***************************************************************************)
(* Specification SpecName: name() and _names on a Manager and on the       *)
(* record snapshot of a Manager, for every class and for field values     *)
(* that are None, empty, a valid token or not a token.                     *)
(***************************************************************************)
StashMap(v) == Map([k \in {"STASH"} |-> v])

NameVals ==
    [field \in AllFields |->
        CASE field = "standard_name" -> {Str(<<>>), Str(<<"s">>), Str(<<"s", " ">>)}
          [] field = "long_name" -> {Str(<<>>), Str(<<"l">>), Str(<<"l", " ">>)}
          [] field = "var_name" -> {Str(<<>>), Str(<<"v">>), Str(<<"v", " ">>)}
          [] field = "attributes" ->
                {Str(<<"x">>), EmptyMap, StashMap(Str(<<"m", "0", "1">>)),
                 StashMap(Str(<<"m", " ", "1">>)), StashMap(Str(<<>>)), StashMap(Null)}
          [] OTHER -> {Str(<<"x">>)}]

NameDefaults == {Null, Str(<<>>), Str(<<"d">>), Str(<<"d", " ">>)}

NameManagers ==
    UNION {ManagersOf(cls, NameVals, Len(Fields(cls))) : cls \in SchemaTypes}

InitName ==
    /\ subject \in NameManagers
    /\ other = NoObject
    /\ ghost = NoGhost
    /\ op = NoCall
    /\ res = NoResult

\* manager.name(default, token)
ManagerNameCall ==
    \E default \in NameDefaults, tok \in BOOLEAN :
        LET outcome == Name(subject, default, tok)
        IN  /\ op.name = "init"
            /\ op' = Call("name", <<default, tok>>, subject, outcome.self)
            /\ subject' = outcome.self
            /\ res' = outcome.out
            /\ UNCHANGED <<other, ghost>>

\* manager.values.name(default, token)
RecordNameCall ==
    \E default \in NameDefaults, tok \in BOOLEAN :
        LET outcome == Name(Values(subject), default, tok)
        IN  /\ op.name = "init"
            /\ op' = Call("name", <<default, tok>>, Values(subject), outcome.self)
            /\ other' = outcome.self
            /\ res' = outcome.out
            /\ UNCHANGED <<subject, ghost>>

\* manager._names
ManagerNamesCall ==
    LET outcome == Names(subject)
    IN  /\ op.name = "init"
        /\ op' = Call("_names", <<>>, subject, outcome.self)
        /\ subject' = outcome.self
        /\ res' = outcome.out
        /\ UNCHANGED <<other, ghost>>

\* manager.values._names
RecordNamesCall ==
    LET outcome == Names(Values(subject))
    IN  /\ op.name = "init"
        /\ op' = Call("_names", <<>>, Values(subject), outcome.self)
        /\ other' = outcome.self
        /\ res' = outcome.out
        /\ UNCHANGED <<subject, ghost>>

NextName ==
    \/ ManagerNameCall
    \/ RecordNameCall
    \/ ManagerNamesCall
    \/ RecordNamesCall

SpecName == InitName /\ [][NextName]_vars

(***************************************************************************)
(* Specification SpecMgr: the owner calls the factory once; the Manager it *)
(* gets has its fields assigned, snapshots taken, and is exported and      *)
(* reconstructed.                                                          *)
(* At most MaxKwargs initial values are given and at most MaxAssign        *)
(* different fields are assigned.                                          *)
(***************************************************************************)
FactoryClasses == SchemaTypes \cup {"dict"}

KwargKeys == AllFields \cup {"bogus_field"}

KwargVals ==
    [key \in KwargKeys |-> IF key = "attributes" THEN {EmptyMap} ELSE {Str(<<"k">>)}]

AssignVals ==
    [field \in AllFields |->
        IF field = "attributes" THEN {Null, EmptyMap} ELSE {Null, Str(<<"s">>)}]

\* manager = MetadataManagerFactory(cls, **kwargs)
CreateCall ==
    \E cls \in FactoryClasses, kwargs \in Dicts(KwargKeys, KwargVals, MaxKwargs) :
        LET out == MetadataManagerFactory(cls, kwargs)
            made == IF out[1] = "return" THEN out[2] ELSE subject
        IN  /\ op.name = "init"
            /\ subject = NoObject
            /\ subject' = made
            /\ ghost' = IF out[1] = "return"
                        THEN [cls |-> cls, init |-> kwargs, last |-> <<>>] ELSE ghost
            /\ op' = Call("create", <<cls, kwargs>>, subject, made)
            /\ res' = out
            /\ other' = NoObject

\* manager.<field> = value
SetFieldCall ==
    /\ subject.kind = "manager"
    /\ \E field \in FieldSet(subject.cls) :
          \E value \in AssignVals[field] :
              /\ Cardinality((DOMAIN ghost.last) \cup {field}) <= MaxAssign
              /\ subject' = SetAttr(subject, field, value)
              /\ ghost' = [ghost EXCEPT !.last = Put(ghost.last, field, value)]
              /\ op' = Call("setattr", <<field, value>>, NoObject, NoObject)
              /\ res' = NoResult
              /\ other' = NoObject

\* manager.values
ValuesCall ==
    /\ subject.kind = "manager"
    /\ op' = Call("values", <<>>, subject, subject)
    /\ res' = Return(Values(subject))
    /\ other' = NoObject
    /\ UNCHANGED <<subject, ghost>>

\* other = pickle.loads(pickle.dumps(manager))
PickleCall ==
    /\ subject.kind = "manager"
    /\ LET reduced == Reduce(subject)
       IN  /\ subject' = reduced.self
           /\ other' = Reconstruct(reduced.out[2])
           /\ op' = Call("pickle", <<>>, subject, reduced.self)
           /\ res' = reduced.out
    /\ UNCHANGED ghost

NextMgr ==
    \/ CreateCall
    \/ SetFieldCall
    \/ ValuesCall
    \/ PickleCall

SpecMgr == InitIdle /\ [][NextMgr]_vars

(***************************************************************************)
(* Specification SpecEq: == and != of a Manager with a Manager, a record   *)
(* or None.  The Managers have at most MaxNonNull fields not None.         *)
(***************************************************************************)
EqVals ==
    [field \in AllFields |->
        CASE field = "standard_name" -> {Str(<<"a">>), Str(<<"b">>)}
          [] field = "attributes" -> {EmptyMap}
          [] OTHER -> {Str(<<"a">>)}]

EqManagers == UNION {ManagersOf(cls, EqVals, MaxNonNull) : cls \in SchemaTypes}

InitEq ==
    /\ subject \in EqManagers
    /\ other = NoObject
    /\ ghost = NoGhost
    /\ op = NoCall
    /\ res = NoResult

EqWith(that) ==
    /\ op.name = "init"
    /\ other' = that
    /\ op' = Call("eq", <<>>, subject, subject)
    /\ res' = ManagerEq(subject, that)
    /\ UNCHANGED <<subject, ghost>>

NeWith(that) ==
    /\ op.name = "init"
    /\ other' = that
    /\ op' = Call("ne", <<>>, subject, subject)
    /\ res' = ManagerNe(subject, that)
    /\ UNCHANGED <<subject, ghost>>

\* manager == manager2
EqCall == \E that \in EqManagers : EqWith(that)

\* manager == record, manager == None
EqForeignCall == \E that \in {Values(subject), NoObject} : EqWith(that)

\* manager != manager2
NeCall == \E that \in EqManagers : NeWith(that)

\* manager != record, manager != None
NeForeignCall == \E that \in {Values(subject), NoObject} : NeWith(that)

NextEq ==
    \/ EqCall
    \/ EqForeignCall
    \/ NeCall
    \/ NeForeignCall

SpecEq == InitEq /\ [][NextEq]_vars

(***************************************************************************)
(* Specification SpecLt: __lt__ of a record with a record of any class.    *)
(* The records have at most MaxNonNull fields not None, the others hold    *)
(* strings.                                                                *)
(***************************************************************************)
OrdVals ==
    [field \in AllFields |->
        IF field \in {"standard_name", "long_name"}
        THEN {Str(<<"a">>), Str(<<"a", "b">>)}
        ELSE {Str(<<"b">>)}]

OrdRecordsOf(cls) == {Values(m) : m \in ManagersOf(cls, OrdVals, MaxNonNull)}

OrdRecords == UNION {OrdRecordsOf(cls) : cls \in SchemaTypes}

InitLt ==
    /\ subject \in OrdRecords
    /\ other = NoObject
    /\ ghost = NoGhost
    /\ op = NoCall
    /\ res = NoResult

\* record.__lt__(that)
LtCall ==
    \E that \in OrdRecords :
        /\ op.name = "init"
        /\ other' = that
        /\ op' = Call("lt", <<>>, subject, subject)
        /\ res' = Lt(subject, that)
        /\ UNCHANGED <<subject, ghost>>

NextLt == LtCall

SpecLt == InitLt /\ [][NextLt]_vars

(***************************************************************************)
(* Claims about token()                                                    *)
(***************************************************************************)
\* the grammar as the claim states it: an ASCII letter or digit, then ASCII
\* letters, digits, underscore, dot, plus, minus and at-sign
ClaimedGrammar(s) ==
    /\ Len(s) >= 1
    /\ s[1] \in AsciiLetters \cup AsciiDigits
    /\ \A i \in 2..Len(s) :
          s[i] \in AsciiLetters \cup AsciiDigits \cup {"_", ".", "+", "-", "@"}

\* C3: token(name) returns name if and only if name is a string of the
\* claimed grammar; for every other string and for None it returns None.
C3_TokenIffGrammar ==
    op.name = "token" =>
        LET name == op.args[1]
        IN  res = Return(IF name # Null /\ ClaimedGrammar(name[2]) THEN name ELSE Null)

(***************************************************************************)
(* Claims about name() and _names                                          *)
(***************************************************************************)
IsNameCall == op.name = "name"

CallDefault == IF op.args[1] = Null THEN DEFAULT_NAME ELSE op.args[1]

IsCube(obj) == obj.cls = "CubeMetadata"

BadAttributes(obj) == ~IsMapping(GetAttr(obj, "attributes"))

\* an immutable Cube record whose attributes is not a mapping
FrozenBadCube(obj) == obj.kind = "record" /\ IsCube(obj) /\ BadAttributes(obj)

\* the candidates before the default, in priority order
Candidates(obj) ==
    LET attributes == GetAttr(obj, "attributes")
    IN  <<GetAttr(obj, "standard_name"), GetAttr(obj, "long_name"),
          GetAttr(obj, "var_name")>>
        \o (IF IsCube(obj) /\ IsMapping(attributes) /\ "STASH" \in DOMAIN attributes[2]
            THEN <<PyStr(attributes[2]["STASH"])>>
            ELSE <<>>)

\* the first element of seq whose flag in good is set, or dflt without one
FirstOr(seq, good, dflt) ==
    IF \E i \in 1..Len(seq) : good[i]
    THEN seq[CHOOSE i \in 1..Len(seq) : good[i] /\ \A j \in 1..(i - 1) : ~good[j]]
    ELSE dflt

NotNull(v) == v # Null

NotNullNotEmpty(v) == v # Null /\ v # Str(<<>>)

IsToken(v) == token(v) # Null

\* C1 as stated: name(default, requireToken=false) returns the first
\* non-null candidate, then the default ("unknown" when not given).
C1_FirstNonNull ==
    (IsNameCall /\ ~op.args[2]) =>
        LET c == Candidates(op.before)
        IN  res = Return(FirstOr(c, [i \in 1..Len(c) |-> NotNull(c[i])], CallDefault))

\* C1 amended: on anything but an immutable Cube record whose attributes
\* is not a mapping, name(default, requireToken=false) returns the first
\* candidate that is neither null nor the empty string, then the default.
C1_FirstNonEmpty ==
    (IsNameCall /\ ~op.args[2] /\ ~FrozenBadCube(op.before)) =>
        LET c == Candidates(op.before)
        IN  res = Return(FirstOr(c, [i \in 1..Len(c) |-> NotNullNotEmpty(c[i])],
                                 CallDefault))

\* name() has skipped an empty standard_name and returned long_name
C1_Witness ==
    /\ IsNameCall /\ ~op.args[2]
    /\ GetAttr(op.before, "standard_name") = Str(<<>>)
    /\ GetAttr(op.before, "long_name") = Str(<<"l">>)
    /\ res = Return(Str(<<"l">>))

\* what the claim says of name(default, requireToken=true): the first
\* candidate, the default included, that the validator accepts, or the
\* name-resolution error when there is none
TokenNameExpected(obj, dflt) ==
    LET all == Candidates(obj) \o <<dflt>>
    IN  IF \E i \in 1..Len(all) : IsToken(all[i])
        THEN Return(FirstOr(all, [i \in 1..Len(all) |-> IsToken(all[i])], Null))
        ELSE Raise("ValueError", {"no valid name token"})

\* C2 as stated: for every record or Manager, name(default,
\* requireToken=true) returns the first candidate the validator accepts or
\* fails with the name-resolution error, and never returns null.
C2_TokenOrResolutionError ==
    (IsNameCall /\ op.args[2]) =>
        /\ res = TokenNameExpected(op.before, CallDefault)
        /\ res # Return(Null)

\* C2 amended: the same, except that on an immutable Cube record whose
\* attributes is not a mapping the call fails with the
\* invalid-attributes-type error instead.
C2_TokenOrError ==
    (IsNameCall /\ op.args[2]) =>
        /\ res # Return(Null)
        /\ res = IF FrozenBadCube(op.before)
                 THEN Raise("AttributeError", {"must be a mapping"})
                 ELSE TokenNameExpected(op.before, CallDefault)

\* name(requireToken=true) has skipped an invalid long_name and an invalid
\* STASH string and returned the default
C2_Witness ==
    /\ IsNameCall /\ op.args[2]
    /\ IsCube(op.before)
    /\ GetAttr(op.before, "long_name") = Str(<<"l", " ">>)
    /\ GetAttr(op.before, "attributes") = StashMap(Str(<<"m", " ", "1">>))
    /\ res = Return(Str(<<"d">>))

IsNamingCall == op.name \in {"name", "_names"}

Normalized(obj) == [obj EXCEPT !.v["attributes"] = EmptyMap]

\* C10 as stated: on a Cube Manager whose attributes is not a mapping the
\* call succeeds and replaces attributes alone by an empty mapping; on such
\* an immutable record it fails with the invalid-attributes-type error and
\* leaves the record as it was; any other call changes no field.
C10_NormalizeAndSucceed ==
    IsNamingCall =>
        IF IsCube(op.before) /\ BadAttributes(op.before)
        THEN IF op.before.kind = "manager"
             THEN res[1] = "return" /\ op.after = Normalized(op.before)
             ELSE /\ res = Raise("AttributeError", {"must be a mapping"})
                  /\ op.after = op.before
        ELSE op.after = op.before

\* C10 amended: on a Cube Manager whose attributes is not a mapping the
\* call replaces attributes alone by an empty mapping and then resolves as
\* on any Manager: it returns, or, for name(requireToken=true) without a
\* valid candidate, fails with the name-resolution error, never with the
\* invalid-attributes-type error.  The rest is as stated.
C10_Normalize ==
    IsNamingCall =>
        IF IsCube(op.before) /\ BadAttributes(op.before)
        THEN IF op.before.kind = "manager"
             THEN /\ op.after = Normalized(op.before)
                  /\ subject = op.after
                  /\ \/ res[1] = "return"
                     \/ /\ op.name = "name" /\ op.args[2]
                        /\ res = Raise("ValueError", {"no valid name token"})
                        /\ \A i \in 1..3 : ~IsToken(Candidates(op.before)[i])
                        /\ ~IsToken(CallDefault)
             ELSE /\ res = Raise("AttributeError", {"must be a mapping"})
                  /\ op.after = op.before
        ELSE op.after = op.before

\* _names on a Cube Manager whose attributes was None has put an empty
\* mapping there and kept a non-null units
C10_Witness ==
    /\ op.name = "_names"
    /\ op.before.kind = "manager" /\ IsCube(op.before)
    /\ GetAttr(op.before, "attributes") = Null
    /\ GetAttr(op.before, "units") # Null
    /\ GetAttr(subject, "attributes") = EmptyMap
    /\ res[1] = "return"

(***************************************************************************)
(* Claims about the factory and the Manager                                *)
(***************************************************************************)
\* the field list of each schema type as the data model declares it
DeclaredFields(cls) ==
    LET base == <<"standard_name", "long_name", "var_name", "units", "attributes">>
    IN  CASE cls = "BaseMetadata" -> base
          [] cls = "AncillaryVariableMetadata" -> base
          [] cls = "CellMeasureMetadata" -> base \o <<"measure">>
          [] cls = "CoordMetadata" -> base \o <<"coord_system", "climatological">>
          [] cls = "CubeMetadata" -> base \o <<"cell_methods">>

Declares(cls, key) == \E i \in 1..Len(DeclaredFields(cls)) : DeclaredFields(cls)[i] = key

\* C4: createManager fails, returning no Manager, when schemaType is not a
\* schema type, and when initialValues has a key that is no field of
\* schemaType, the error then listing exactly the offending keys; otherwise
\* it succeeds.
C4_FactoryValidates ==
    op.name = "create" =>
        LET cls == op.args[1]
            kwargs == op.args[2]
        IN  IF cls \notin SchemaTypes
            THEN res[1] = "raise" /\ res[2] = "TypeError" /\ subject = NoObject
            ELSE IF \E key \in DOMAIN kwargs : ~Declares(cls, key)
                 THEN /\ res = Raise("ValueError",
                                     {key \in DOMAIN kwargs : ~Declares(cls, key)})
                      /\ subject = NoObject
                 ELSE /\ res[1] = "return"
                      /\ subject = res[2]
                      /\ subject.kind = "manager" /\ subject.cls = cls

\* the factory has rejected a field of another schema type given together
\* with a field of this one
C4_Witness ==
    /\ op.name = "create"
    /\ op.args[1] = "CoordMetadata"
    /\ DOMAIN op.args[2] = {"standard_name", "measure"}
    /\ res = Raise("ValueError", {"measure"})
    /\ subject = NoObject

\* the value field holds by the history of the Manager
Latest(field) ==
    IF field \in DOMAIN ghost.last THEN ghost.last[field]
    ELSE IF field \in DOMAIN ghost.init THEN ghost.init[field]
    ELSE Null

\* C5: values is a record of the type the Manager was created with, with
\* exactly that type's fields in declared order, each holding the value
\* last assigned to it, else its initial value, else null.
C5_ValuesLatest ==
    op.name = "values" =>
        res = Return(Record(ghost.cls,
                            [i \in 1..Len(DeclaredFields(ghost.cls)) |->
                                Latest(DeclaredFields(ghost.cls)[i])]))

\* a snapshot has been taken of a Manager with an initial value overwritten
\* by an assignment and another initial value left alone
C5_Witness ==
    /\ op.name = "values"
    /\ \E f \in DOMAIN ghost.init :
          f \in DOMAIN ghost.last /\ ghost.last[f] # ghost.init[f]
    /\ \E f \in DOMAIN ghost.init : f \notin DOMAIN ghost.last
    /\ Len(res[2].v) = 7

\* C7: exporting a Manager and reconstructing it from (schema type,
\* mapping) gives a Manager of the same schema type with the same value in
\* every field, hence the same values, that compares equal to the original;
\* the export leaves the original as it was.
C7_PickleRoundTrip ==
    op.name = "pickle" =>
        /\ subject = op.before
        /\ other.kind = "manager"
        /\ other.cls = subject.cls
        /\ \A i \in 1..Len(DeclaredFields(subject.cls)) :
              LET f == DeclaredFields(subject.cls)[i]
              IN  f \in DOMAIN other.v /\ other.v[f] = subject.v[f]
        /\ Values(other) = Values(subject)
        /\ ManagerEq(other, subject) = Return(TRUE)
        /\ ManagerNe(other, subject) = Return(FALSE)

\* a Coord Manager with values in a base field and in a field of its own
\* has been exported and reconstructed
C7_Witness ==
    /\ op.name = "pickle"
    /\ subject.cls = "CoordMetadata"
    /\ subject.v["standard_name"] # Null
    /\ subject.v["climatological"] # Null
    /\ other = subject

\* the two Managers wrap the same schema type and agree on every field
SameTypeSameValues(a, b) ==
    /\ a.cls = b.cls
    /\ \A i \in 1..Len(DeclaredFields(a.cls)) :
          a.v[DeclaredFields(a.cls)[i]] = b.v[DeclaredFields(a.cls)[i]]

\* C6: m1 == m2 is true iff the two Managers wrap the same schema type and
\* their snapshots are equal, m1 != m2 is its negation, and comparing with
\* an object that is no Manager gives the not-comparable result.
C6_ManagerEquality ==
    /\ op.name = "eq" =>
          res = IF other.kind = "manager"
                THEN Return(SameTypeSameValues(subject, other))
                ELSE NotImplemented
    /\ op.name = "ne" =>
          /\ res = IF other.kind = "manager"
                   THEN Return(~SameTypeSameValues(subject, other))
                   ELSE NotImplemented
          /\ ManagerEq(subject, other) # NotImplemented =>
                res = Return(~ManagerEq(subject, other)[2])

\* a Coord Manager has compared unequal with a CellMeasure Manager that
\* holds the same values in the fields they share
C6_Witness ==
    /\ op.name = "eq"
    /\ subject.cls = "CoordMetadata" /\ other.cls = "CellMeasureMetadata"
    /\ other.kind = "manager"
    /\ subject.v["standard_name"] # Null
    /\ \A i \in 1..5 :
          subject.v[DeclaredFields("BaseMetadata")[i]]
              = other.v[DeclaredFields("BaseMetadata")[i]]
    /\ res = Return(FALSE)

(***************************************************************************)
(* Claims about the ordering rule                                          *)
(***************************************************************************)
\* the pair (is_not_null, value) of x before that of y
PairLt(x, y) ==
    \/ x = Null /\ y # Null
    \/ x # Null /\ y # Null /\ StrLt(x[2], y[2])

\* the lexicographic order of two value tuples of one length
LexLt(x, y) ==
    \E i \in 1..Len(x) :
        /\ \A j \in 1..(i - 1) : x[j] = y[j]
        /\ x[i] # y[i]
        /\ PairLt(x[i], y[i])

\* how many records of its class are less than record r
Rank == [r \in OrdRecords |->
            Cardinality({c \in OrdRecordsOf(r.cls) : Lt(c, r) = Return(TRUE)})]

\* C8: for two records a, b of one schema type, a < b is the
\* lexicographic comparison, over the fields in declared order, of the
\* pairs (is_not_null, value).  It is a strict total order: never a < a;
\* of a < b and b < a exactly one holds when a and b differ; and a < b
\* places a below b in the ranking of the records by how many records are
\* less than each, which makes the relation transitive.
C8_LtIsLexicographic ==
    (op.name = "lt" /\ subject.cls = other.cls) =>
        /\ res = Return(LexLt(subject.v, other.v))
        /\ subject = other => res = Return(FALSE)
        /\ subject # other => (res = Return(TRUE)) # (Lt(other, subject) = Return(TRUE))
        /\ res = Return(TRUE) => Rank[subject] < Rank[other]

\* a record with None in its first field has compared less than a record
\* with "a" there and the same second field
C8_Witness ==
    /\ op.name = "lt"
    /\ subject.cls = other.cls
    /\ subject.v[1] = Null /\ other.v[1] = Str(<<"a">>)
    /\ subject.v[2] = Str(<<"a", "b">>) /\ other.v[2] = subject.v[2]
    /\ res = Return(TRUE)

\* C9: less-than between two records of different concrete schema types
\* gives the not-implemented result, with a Base record on either side too.
C9_CrossTypeRejected ==
    (op.name = "lt" /\ subject.cls # other.cls) => res = NotImplemented

====
